---- MODULE Spec2Model ----
(***************************************************************************)
(* Model of the dataset pipeline of Explore_simulations:                    *)
(*   utils.read_tree -> utils.process_data -> create_dataset.              *)
(*   merge_and_shuffle -> create_dataset.load_npz_file  (main.py 28-56).   *)
(*                                                                         *)
(* A numpy array is a record [shape, data]: shape is the tuple of          *)
(* dimensions and data the nested sequence of its elements.  The branches  *)
(* of the source files hold floating point numbers.  Quotients are kept    *)
(* as exact fractions <<num, den>>; 0/0 is the value NaN = <<0, 0>>.       *)
(* Angles are in microradians.  log10, degrees and the Stot rescaling are  *)
(* kept as symbolic terms <<name, argument>>.  numpy's RandomState is a    *)
(* small congruential generator: a deterministic function of its seed,     *)
(* consumed by a Fisher-Yates shuffle as in RandomState.shuffle.           *)
(***************************************************************************)
EXTENDS Integers, Sequences, FiniteSets

VARIABLES step, nfiles, labels_cfg, sel_theta, nstations,
          raw, proc, set_seed, arrays, file, prev, err, order

vars == <<step, nfiles, labels_cfg, sel_theta, nstations,
          raw, proc, set_seed, arrays, file, prev, err, order>>

\* ------------------------------------------------------------------ bounds
\* largest number of events in one source file
MaxEvents == 2
\* largest number of ranked stations per event
MaxStations == 2
\* number of time bins kept by the trace truncation (150 in utils.py:155,
\* scaled down); raw waveforms are one bin longer
NBins == 3

\* ------------------------------------------------------- program constants
\* np.radians(60) in microradians
Radians60 == 1047198
Snorm == 100
DistScale == 1500
DefaultSeed == 55

\* ------------------------------------------------------------ numpy arrays
Arr(shape, data) == [shape |-> shape, data |-> data]

Ndim(a) == Len(a.shape)

\* shape numpy infers for a nested list of the given nesting depth
RECURSIVE NestShape(_, _)
NestShape(l, depth) ==
  IF depth = 0 THEN <<>>
  ELSE IF Len(l) = 0 THEN <<0>>
  ELSE <<Len(l)>> \o NestShape(l[1], depth - 1)

\* np.array(nested list)
np_array(l, depth) == Arr(NestShape(l, depth), l)

\* a[idx] with idx an integer index array: rows idx[1], idx[2], ... of a
Take(a, idx) ==
  Arr(<<Len(idx)>> \o Tail(a.shape), [k \in 1..Len(idx) |-> a.data[idx[k]]])

\* np.squeeze: every dimension of size 1 is removed
RECURSIVE SqueezeShape(_)
SqueezeShape(shape) ==
  IF shape = <<>> THEN <<>>
  ELSE IF Head(shape) = 1 THEN SqueezeShape(Tail(shape))
  ELSE <<Head(shape)>> \o SqueezeShape(Tail(shape))

RECURSIVE SqueezeData(_, _)
SqueezeData(d, shape) ==
  IF shape = <<>> THEN d
  ELSE IF Head(shape) = 1 THEN SqueezeData(d[1], Tail(shape))
  ELSE [k \in 1..Head(shape) |-> SqueezeData(d[k], Tail(shape))]

np_squeeze(a) == Arr(SqueezeShape(a.shape), SqueezeData(a.data, a.shape))

\* len(a): the leading dimension
LenArr(a) == a.shape[1]

RECURSIVE SumHeads(_)
SumHeads(arrs) ==
  IF arrs = <<>> THEN 0 ELSE LenArr(Head(arrs)) + SumHeads(Tail(arrs))

RECURSIVE JoinData(_)
JoinData(arrs) ==
  IF arrs = <<>> THEN <<>> ELSE Head(arrs).data \o JoinData(Tail(arrs))

\* np.concatenate along axis 0: every array needs at least one dimension,
\* the same number of dimensions and the same trailing dimensions
ConcatOk(arrs) ==
  /\ Len(arrs) >= 1
  /\ \A k \in 1..Len(arrs) : Ndim(arrs[k]) >= 1
  /\ \A k \in 1..Len(arrs) : Ndim(arrs[k]) = Ndim(arrs[1])
  /\ \A k \in 1..Len(arrs) : Tail(arrs[k].shape) = Tail(arrs[1].shape)

np_concatenate(arrs) ==
  Arr(<<SumHeads(arrs)>> \o Tail(arrs[1].shape), JoinData(arrs))

\* --------------------------------------------------------------- numerics
Log10(x) == <<"log10", x>>
Degrees(x) == <<"degrees", x>>

\* x / y in floating point: a fraction with positive denominator; a zero
\* denominator gives NaN (0/0), +inf or -inf
NaN == <<0, 0>>

Div(x, y) ==
  IF y = 0 THEN (IF x = 0 THEN NaN ELSE IF x > 0 THEN <<1, 0>> ELSE <<-1, 0>>)
  ELSE IF y < 0 THEN <<0 - x, 0 - y>>
  ELSE <<x, y>>

IsNum(q) == q[2] # 0
FracLeq(p, q) == p[1] * q[2] <= q[1] * p[2]
FracIsOne(q) == q[1] = q[2]

RECURSIVE SumSeq(_)
SumSeq(s) == IF s = <<>> THEN 0 ELSE Head(s) + SumSeq(Tail(s))

RECURSIVE MaxSeq(_)
MaxSeq(s) ==
  IF Len(s) = 1 THEN s[1]
  ELSE LET m == MaxSeq(Tail(s)) IN IF Head(s) >= m THEN Head(s) ELSE m

\* np.cumsum
np_cumsum(s) == [k \in 1..Len(s) |-> SumSeq(SubSeq(s, 1, k))]

\* ------------------------------------------------------------- source files
\* the kinds of event: a zenith angle just below, exactly at or just above
\* 60 degrees, with a positive, a partly negative or an all-zero waveform
KindMenu ==
  << [theta |-> Radians60 - 1, wave |-> "pos"],
     [theta |-> Radians60 - 1, wave |-> "neg"],
     [theta |-> Radians60,     wave |-> "pos"],
     [theta |-> Radians60 + 1, wave |-> "pos"],
     [theta |-> Radians60 - 1, wave |-> "zero"] >>

\* the event kinds of one source file: n consecutive kinds of the menu,
\* taken cyclically from any starting point
KindSeqs ==
  { [i \in 1..n |-> KindMenu[((o + i - 1) % Len(KindMenu)) + 1]] :
      n \in 0..MaxEvents, o \in 0..(Len(KindMenu) - 1) }

\* the waveform of event g at station s: NBins + 1 raw time bins, the last
\* one always non-zero
Waveform(g, s, wave) ==
  [k \in 1..(NBins + 1) |->
     IF k = NBins + 1 THEN 1
     ELSE IF wave = "zero" THEN 0
     ELSE IF wave = "pos" THEN (IF k = 1 THEN g ELSE (k + s) % 2)
     ELSE (IF k = 1 THEN g ELSE IF k = 2 THEN 0 - (g + s) ELSE 0)]

\* the tree of source file b: one entry per element of kinds, S stations each;
\* event i of file b carries the tag 10 b + i in every branch
TreeBranches(b, kinds, S) ==
  LET n == Len(kinds)
      g(i) == 10 * b + i
  IN [ E_MC       |-> [i \in 1..n |-> 1000 + g(i)],
       E_SD       |-> [i \in 1..n |-> 2000 + g(i)],
       Dist       |-> [i \in 1..n |-> [s \in 1..S |-> DistScale * s + g(i)]],
       traces_vec |-> [i \in 1..n |->
                         [s \in 1..S |-> Waveform(g(i), s, kinds[i].wave)]],
       ID_SD      |-> [i \in 1..n |-> g(i)],
       t0         |-> [i \in 1..n |-> 50 + g(i)],
       theta      |-> [i \in 1..n |-> kinds[i].theta],
       Stot       |-> [i \in 1..n |-> [s \in 1..S |-> g(i) + s]],
       Shsize     |-> [i \in 1..n |-> 20 + g(i)],
       azimuthSP  |-> [i \in 1..n |-> [s \in 1..S |-> 100 * s + g(i)]],
       Nstat      |-> [i \in 1..n |-> S + (i % 2)] ]

\* read_tree: every branch becomes a dense array whose shape numpy infers
\* from the nested list (an empty tree gives arrays of shape (0,))
read_tree(branches) ==
  [ Ene_MC  |-> np_array(branches.E_MC, 1),
    Ene     |-> np_array(branches.E_SD, 1),
    Dist    |-> np_array(branches.Dist, 2),
    traces  |-> np_array(branches.traces_vec, 3),
    ID      |-> np_array(branches.ID_SD, 1),
    t0      |-> np_array(branches.t0, 1),
    theta   |-> np_array(branches.theta, 1),
    Stot    |-> np_array(branches.Stot, 2),
    S1000   |-> np_array(branches.Shsize, 1),
    azimuth |-> np_array(branches.azimuthSP, 2),
    Nstat   |-> np_array(branches.Nstat, 1) ]

TreeFields ==
  {"Ene_MC", "Ene", "Dist", "traces", "ID", "t0", "theta", "Stot", "S1000",
   "azimuth", "Nstat"}

\* ------------------------------------------------------------ process_data
\* np.where(theta < np.radians(60))[0]: the indices, ascending
RECURSIVE WhereBelow(_, _, _)
WhereBelow(d, bound, i) ==
  IF i > Len(d) THEN <<>>
  ELSE IF d[i] < bound THEN <<i>> \o WhereBelow(d, bound, i + 1)
  ELSE WhereBelow(d, bound, i + 1)

\* variant: the comparison written as <=
filtered_indices_le(tree_data_input) ==
  WhereBelow(tree_data_input.theta.data, Radians60 + 1, 1)

filtered_indices(tree_data_input) ==
  WhereBelow(tree_data_input.theta.data, Radians60, 1)

\* variant: the t0 column left out of the selection
SelectThetaButT0(tree_data_input, sel) ==
  IF sel
  THEN [f \in TreeFields |->
          IF f = "t0" THEN tree_data_input[f]
          ELSE Take(tree_data_input[f], filtered_indices(tree_data_input))]
  ELSE tree_data_input

\* the batch that is processed: filtered by theta, or the input itself
SelectTheta(tree_data_input, sel) ==
  IF sel
  THEN [f \in TreeFields |->
          Take(tree_data_input[f], filtered_indices(tree_data_input))]
  ELSE tree_data_input

\* np.log10 and np.degrees on a 1-d array, np.degrees on a 2-d array
Log10Arr(a) == Arr(a.shape, [i \in 1..Len(a.data) |-> Log10(a.data[i])])
DegreesArr(a) == Arr(a.shape, [i \in 1..Len(a.data) |-> Degrees(a.data[i])])
DegreesArr2(a) ==
  Arr(a.shape,
      [i \in 1..Len(a.data) |->
         [s \in 1..Len(a.data[i]) |-> Degrees(a.data[i][s])]])

\* rescale_Stot: a list with one rescaled row per element of x_list
rescale_Stot(x_list, snorm) ==
  [i \in 1..Len(x_list.data) |->
     [s \in 1..Len(x_list.data[i]) |->
        <<"rescale", x_list.data[i][s] + 1, snorm + 1>>]]

\* lg_Stot = np.squeeze(np.array([rescale_Stot(Stot, Snorm)]))
lg_Stot_of(tree_data, snorm) ==
  np_squeeze(np_array(<<rescale_Stot(tree_data.Stot, snorm)>>, 3))

RECURSIVE SumRows(_)
SumRows(rows) ==
  IF rows = <<>> THEN 0 ELSE SumSeq(Head(rows)) + SumRows(Tail(rows))

RECURSIVE CountRows(_)
CountRows(rows) ==
  IF rows = <<>> THEN 0 ELSE Len(Head(rows)) + CountRows(Tail(rows))

\* Dist / 1500 - mean(Dist / 1500), as one exact fraction per element
Dist_norm_of(tree_data) ==
  LET rows == tree_data.Dist.data
      total == SumRows(rows)
      cnt == CountRows(rows)
  IN Arr(tree_data.Dist.shape,
         [i \in 1..Len(rows) |->
            [s \in 1..Len(rows[i]) |->
               Div(rows[i][s] * cnt - total, DistScale * cnt)]])

\* traces[:, :, :150] of one waveform
Truncate(w) == SubSeq(w, 1, IF Len(w) < NBins THEN Len(w) ELSE NBins)

\* variant: the division by the maximum of the waveform, not of its cumsum
NormalizeTraceRawMax(w) ==
  LET stat == np_cumsum(w)
  IN [k \in 1..Len(stat) |-> Div(stat[k], MaxSeq(w))]

\* stat = np.cumsum(stat); stat / np.max(stat)
NormalizeTrace(w) ==
  LET stat == np_cumsum(w)
  IN [k \in 1..Len(stat) |-> Div(stat[k], MaxSeq(stat))]

\* the loop over events and stations of the truncated copy
traces_cum_of(tree_data) ==
  LET t == tree_data.traces
  IN Arr(<<t.shape[1], t.shape[2],
           IF t.shape[3] < NBins THEN t.shape[3] ELSE NBins>>,
         [j \in 1..Len(t.data) |->
            [i \in 1..Len(t.data[j]) |->
               NormalizeTrace(Truncate(t.data[j][i]))]])

NoProcessed == [label |-> -1]

\* process_data: [err, val]; indexing a traces array of fewer than three
\* dimensions with [:, :, :150] raises IndexError
process_data(tree_data_input, sel, label_val, snorm) ==
  LET tree_data == SelectTheta(tree_data_input, sel)
  IN IF Ndim(tree_data.traces) < 3
     THEN [err |-> "IndexError", val |-> NoProcessed]
     ELSE [err |-> "none",
           val |-> [ lgE_MC     |-> Log10Arr(tree_data.Ene_MC),
                     lgE        |-> Log10Arr(tree_data.Ene),
                     Dist       |-> Dist_norm_of(tree_data),
                     traces_cum |-> traces_cum_of(tree_data),
                     ID         |-> tree_data.ID,
                     t0         |-> tree_data.t0,
                     theta      |-> DegreesArr(tree_data.theta),
                     lg_Stot    |-> lg_Stot_of(tree_data, snorm),
                     lg_S1000   |-> Log10Arr(tree_data.S1000),
                     azimuth    |-> DegreesArr2(tree_data.azimuth),
                     Nstat      |-> Log10Arr(tree_data.Nstat),
                     label      |-> label_val ]]

\* variant: traces = tree_data.traces, the array of the input itself
np_view(a) == [own |-> FALSE, arr |-> a]

\* np.copy(a): a new array with the values of a, in a buffer of its own
np_copy(a) == [own |-> TRUE, arr |-> a]

\* the float x/y as an array element next to the whole-numbered raw bins:
\* in thousandths, rounded down; NaN and the infinities as -1000000
StoredFloat(q) == IF q[2] = 0 THEN -1000000 ELSE (1000 * q[1]) \div q[2]

\* the buffer of traces after the loop: traces_cum = traces[:, :, :150] is a
\* view, so traces_cum[j][i] = stat / np.max(stat) writes the first bins of
\* traces
WriteThrough(t) ==
  Arr(t.shape,
      [j \in 1..Len(t.data) |->
         [i \in 1..Len(t.data[j]) |->
            LET w == t.data[j][i]
                stat == NormalizeTrace(Truncate(w))
            IN [k \in 1..Len(w) |->
                  IF k <= Len(stat) THEN StoredFloat(stat[k]) ELSE w[k]]]])

\* the input TreeData once process_data has returned: its arrays are written
\* to only if the loop's buffer is the input's own traces array, which needs
\* no theta selection (indexing with an index array copies) and no copy
InputAfter(tree_data_input, sel) ==
  LET tree_data == SelectTheta(tree_data_input, sel)
      traces == np_copy(tree_data.traces)
  IN IF traces.own \/ sel \/ Ndim(traces.arr) < 3
     THEN tree_data_input
     ELSE [tree_data_input EXCEPT !.traces = WriteThrough(traces.arr)]

\* ------------------------------------------------------ numpy RandomState
\* np.random.RandomState(seed): the generator state set from the seed
RandomState(seed) == seed % 64

\* one step of the generator
NextState(st) == (st * 5 + 3) % 64

\* the index in 1..i drawn from generator state st
Interval(st, i) == 1 + ((st \div 4) % i)

Swap(d, i, j) == [d EXCEPT ![i] = d[j], ![j] = d[i]]

\* rstate.shuffle(d): for i = n down to 2, swap d[i] with a drawn d[j], j <= i
RECURSIVE ShuffleFrom(_, _, _)
ShuffleFrom(d, st, i) ==
  IF i < 2 THEN [data |-> d, rstate |-> st]
  ELSE LET st1 == NextState(st)
       IN ShuffleFrom(Swap(d, i, Interval(st1, i)), st1, i - 1)

Shuffle(d, st) == ShuffleFrom(d, st, Len(d))

\* ---------------------------------------------------------- shuffle_arrays
\* seeds np.random.randint(0, 2**31 - 1) may return
DrawnSeeds == {7, 8}

SeedArgs == {-1, 0, DefaultSeed}

\* variant: the test written as set_seed <= 0
SeedOfLeq(seed_arg, drawn) == IF seed_arg <= 0 THEN drawn ELSE seed_arg

\* seed = np.random.randint(...) if set_seed < 0 else set_seed
SeedOf(seed_arg, drawn) == IF seed_arg < 0 THEN drawn ELSE seed_arg

\* variant: one RandomState made before the loop and used for every array
LoopRStateOnce(seed, carried) == carried

\* the generator each array is shuffled with: a fresh RandomState(seed);
\* carried is the state the previous array's shuffle ended in
LoopRState(seed, carried) == RandomState(seed)

RECURSIVE ShuffleLoop(_, _, _, _)
ShuffleLoop(arrs, k, seed, carried) ==
  IF k > Len(arrs) THEN arrs
  ELSE LET r == Shuffle(arrs[k].data, LoopRState(seed, carried))
       IN ShuffleLoop([arrs EXCEPT ![k] = Arr(arrs[k].shape, r.data)],
                      k + 1, seed, r.rstate)

\* assert all(len(arr) == len(arrays[0]) for arr in arrays)
SameLen(arrs) == \A k \in 1..Len(arrs) : LenArr(arrs[k]) = LenArr(arrs[1])

shuffle_arrays(arrs, seed_arg, drawn) ==
  IF ~SameLen(arrs)
  THEN [err |-> "AssertionError", arrs |-> arrs]
  ELSE LET seed == SeedOf(seed_arg, drawn)
       IN [err |-> "none",
           arrs |-> ShuffleLoop(arrs, 1, seed, RandomState(seed))]

\* ------------------------------------------------------- merge_and_shuffle
\* np.column_stack((theta, lg_S1000, Nstat))
create_info_event(pd) ==
  Arr(<<LenArr(pd.theta), 3>>,
      [i \in 1..LenArr(pd.theta) |->
         <<pd.theta.data[i], pd.lg_S1000.data[i], pd.Nstat.data[i]>>])

\* variant: np.ones_like(data.lgE_MC)
ones_like(a, v) == Arr(a.shape, [i \in 1..Len(a.data) |-> 1])

\* np.full_like(data.lgE_MC, data.label)
full_like(a, v) == Arr(a.shape, [i \in 1..Len(a.data) |-> v])

Column(list, f) == [b \in 1..Len(list) |-> list[b][f]]

\* a.reshape(a.shape[0], a.shape[1], 1)
Reshape2(a) ==
  Arr(<<a.shape[1], a.shape[2], 1>>,
      [i \in 1..Len(a.data) |->
         [s \in 1..Len(a.data[i]) |-> <<a.data[i][s]>>]])

\* a.reshape(a.shape[0], a.shape[1], a.shape[2], 1)
Reshape3(a) ==
  Arr(<<a.shape[1], a.shape[2], a.shape[3], 1>>,
      [i \in 1..Len(a.data) |->
         [s \in 1..Len(a.data[i]) |->
            [k \in 1..Len(a.data[i][s]) |-> <<a.data[i][s][k]>>]]])

Keys == {"traces", "dist", "Stot", "azimuthSP", "info_event", "labels"}

NoArrays == [k \in {} |-> 0]

\* variant: every batch labelled with the label of the first batch
MergeListsFirstLabel(list) ==
  << [b \in 1..Len(list) |-> create_info_event(list[b])],
     Column(list, "traces_cum"),
     [b \in 1..Len(list) |-> full_like(list[b].lgE_MC, list[1].label)],
     Column(list, "Dist"),
     Column(list, "azimuth"),
     Column(list, "lg_Stot") >>

\* the concatenations of lines 65-72, in their order
MergeLists(list) ==
  << [b \in 1..Len(list) |-> create_info_event(list[b])],
     Column(list, "traces_cum"),
     [b \in 1..Len(list) |-> full_like(list[b].lgE_MC, list[b].label)],
     Column(list, "Dist"),
     Column(list, "azimuth"),
     Column(list, "lg_Stot") >>

\* the arrays handed to shuffle_arrays: traces, labels, Dist_norm,
\* info_events, azimuth, lg_Stot, concatenated and reshaped
Reshaped(list) ==
  LET m == MergeLists(list)
  IN << Reshape3(np_concatenate(m[2])),
        np_concatenate(m[3]),
        Reshape2(np_concatenate(m[4])),
        Reshape2(np_concatenate(m[1])),
        Reshape2(np_concatenate(m[5])),
        Reshape2(np_concatenate(m[6])) >>

\* the first exception of lines 65-79, or "none"
MergeError(list) ==
  LET m == MergeLists(list)
  IN IF \E k \in 1..6 : ~ConcatOk(m[k]) THEN "ValueError"
     ELSE IF \/ Ndim(np_concatenate(m[4])) < 2
             \/ Ndim(np_concatenate(m[5])) < 2
             \/ Ndim(np_concatenate(m[6])) < 2
             \/ Ndim(np_concatenate(m[2])) < 3
             \/ Ndim(np_concatenate(m[1])) < 2
          THEN "IndexError"
     ELSE IF \/ Ndim(np_concatenate(m[4])) > 2
             \/ Ndim(np_concatenate(m[5])) > 2
             \/ Ndim(np_concatenate(m[6])) > 2
             \/ Ndim(np_concatenate(m[2])) > 3
          THEN "ValueError"
     ELSE "none"

\* merge_and_shuffle: [err, saved]; saved are the keyword arrays of
\* np.savez_compressed, NoArrays when an exception is raised before it
merge_and_shuffle(list, seed_arg, drawn) ==
  IF MergeError(list) # "none"
  THEN [err |-> MergeError(list), saved |-> NoArrays]
  ELSE LET r == shuffle_arrays(Reshaped(list), seed_arg, drawn)
       IN IF r.err # "none"
          THEN [err |-> r.err, saved |-> NoArrays]
          ELSE [err |-> "none",
                saved |-> [ traces     |-> r.arrs[1],
                            labels     |-> r.arrs[2],
                            dist       |-> r.arrs[3],
                            info_event |-> r.arrs[4],
                            azimuthSP  |-> r.arrs[5],
                            Stot       |-> r.arrs[6] ]]

\* variant: concatenating a single array hands that array back
ConcatOwnsMany(arrs) == Len(arrs) > 1

\* np.concatenate returns a new array, whatever the number of its inputs
ConcatOwns(arrs) == TRUE

\* rstate.shuffle applied to the rows of a, from a fresh RandomState(seed)
ShuffledInPlace(a, seed) ==
  Arr(a.shape, Shuffle(a.data, RandomState(seed)).data)

\* the batches of the list once merge_and_shuffle has returned: the reshapes
\* of lines 74-79 are views of the concatenated arrays, so the in-place
\* shuffle reaches a batch's array only if a concatenation is that array
BatchesAfter(list, seed_arg, drawn) ==
  LET r == merge_and_shuffle(list, seed_arg, drawn)
      seed == SeedOf(seed_arg, drawn)
  IN IF r.err # "none" \/ ConcatOwns(list)
     THEN list
     ELSE [list EXCEPT
             ![1].traces_cum = ShuffledInPlace(list[1].traces_cum, seed),
             ![1].Dist       = ShuffledInPlace(list[1].Dist, seed),
             ![1].azimuth    = ShuffledInPlace(list[1].azimuth, seed),
             ![1].lg_Stot    = ShuffledInPlace(list[1].lg_Stot, seed)]

\* ----------------------------------------------------------- load_npz_file
\* data['traces'], ..., data['labels']: KeyError on a missing key; the
\* shapes are printed
load_npz_file(content) ==
  IF \E k \in Keys : k \notin DOMAIN content THEN "KeyError" ELSE "none"

\* ------------------------------------------------------------------ main
\* config_type "onepart_dataset" (one file, label 0 or 1) or "dataset"
\* (two files, labels 1 and 0)
Configs == { <<0>>, <<1>>, <<1, 0>> }

Init ==
  /\ step = "read"
  /\ labels_cfg \in Configs
  /\ nfiles = Len(labels_cfg)
  /\ sel_theta \in BOOLEAN
  /\ nstations \in 1..MaxStations
  /\ raw = <<>>
  /\ proc = <<>>
  /\ set_seed = DefaultSeed
  /\ arrays = NoArrays
  /\ file = NoArrays
  /\ prev = NoArrays
  /\ err = "none"
  /\ order = "list"

\* data = utils.read_tree(input_file)
ReadTree ==
  /\ step = "read"
  /\ \E kinds \in KindSeqs :
       raw' = Append(raw, read_tree(TreeBranches(Len(raw) + 1, kinds, nstations)))
  /\ step' = IF Len(raw) + 1 = nfiles THEN "process" ELSE "read"
  /\ UNCHANGED <<nfiles, labels_cfg, sel_theta, nstations, proc, set_seed,
                 arrays, file, prev, err, order>>

\* proc_data = utils.process_data(data, theta_cut, label); the call may
\* write to the arrays of its argument, so data is what InputAfter leaves
ProcessData ==
  /\ step = "process"
  /\ LET b == Len(proc) + 1
         r == process_data(raw[b], sel_theta, labels_cfg[b], Snorm)
     IN /\ raw' = [raw EXCEPT ![b] = InputAfter(raw[b], sel_theta)]
        /\ IF r.err # "none"
           THEN /\ err' = r.err
                /\ step' = "failed"
                /\ proc' = proc
           ELSE /\ err' = err
                /\ proc' = Append(proc, r.val)
                /\ step' = IF b = nfiles THEN "merge" ELSE "process"
  /\ UNCHANGED <<nfiles, labels_cfg, sel_theta, nstations, set_seed,
                 arrays, file, prev, order>>

\* create_dataset.merge_and_shuffle(output_dir, dataset_name, list, set_seed);
\* the in-place shuffle leaves the batches of the list as BatchesAfter says
MergeAndShuffle ==
  /\ step = "merge"
  /\ \E seed_arg \in SeedArgs, drawn \in DrawnSeeds :
       LET r == merge_and_shuffle(proc, seed_arg, drawn)
       IN /\ set_seed' = seed_arg
          /\ err' = r.err
          /\ arrays' = r.saved
          /\ file' = IF r.err = "none" THEN r.saved ELSE file
          /\ step' = IF r.err = "none" THEN "load" ELSE "failed"
          /\ proc' = BatchesAfter(proc, seed_arg, drawn)
  /\ UNCHANGED <<nfiles, labels_cfg, sel_theta, nstations, raw, prev, order>>

\* create_dataset.load_npz_file(output_dir, dataset_name)
LoadNpzFile ==
  /\ step = "load"
  /\ err' = load_npz_file(file)
  /\ step' = IF load_npz_file(file) = "none" THEN "done" ELSE "failed"
  /\ UNCHANGED <<nfiles, labels_cfg, sel_theta, nstations, raw, proc,
                 set_seed, arrays, file, prev, order>>

\* the same call of merge_and_shuffle once more: same list, same set_seed
MergeAgain ==
  /\ step = "done"
  /\ prev = NoArrays
  /\ \E drawn \in DrawnSeeds :
       LET r == merge_and_shuffle(proc, set_seed, drawn)
       IN /\ err' = r.err
          /\ prev' = arrays
          /\ arrays' = r.saved
          /\ file' = IF r.err = "none" THEN r.saved ELSE file
          /\ step' = IF r.err = "none" THEN "load" ELSE "failed"
          /\ proc' = BatchesAfter(proc, set_seed, drawn)
  /\ UNCHANGED <<nfiles, labels_cfg, sel_theta, nstations, raw, set_seed,
                 order>>

Next ==
  \/ ReadTree
  \/ ProcessData
  \/ MergeAndShuffle
  \/ LoadNpzFile
  \/ MergeAgain

Spec == Init /\ [][Next]_vars

\* ------------------------------------------------------- reordered batches
\* the list in the opposite order
Reverse(list) == [b \in 1..Len(list) |-> list[Len(list) + 1 - b]]

\* a second call of merge_and_shuffle with the same batches in the opposite
\* list order and the same set_seed
MergeReversed ==
  /\ step = "done"
  /\ prev = NoArrays
  /\ \E drawn \in DrawnSeeds :
       LET r == merge_and_shuffle(Reverse(proc), set_seed, drawn)
       IN /\ err' = r.err
          /\ prev' = arrays
          /\ arrays' = r.saved
          /\ file' = IF r.err = "none" THEN r.saved ELSE file
          /\ step' = IF r.err = "none" THEN "load" ELSE "failed"
          /\ proc' = Reverse(BatchesAfter(Reverse(proc), set_seed, drawn))
  /\ order' = "reversed"
  /\ UNCHANGED <<nfiles, labels_cfg, sel_theta, nstations, raw, set_seed>>

NextReorder == Next \/ MergeReversed

\* the pipeline followed by a call on the same or on the reordered list
SpecReorder == Init /\ [][NextReorder]_vars

\* ------------------------------------------------------------- file system
\* a without its last row
DropLast(a) ==
  Arr(<<LenArr(a) - 1>> \o Tail(a.shape), SubSeq(a.data, 1, LenArr(a) - 1))

\* between np.savez_compressed and np.load the container at the output path
\* is replaced by one that lacks a key or holds a shorter array; np.load
\* opens whatever is at the path
FileReplaced ==
  /\ step = "load"
  /\ file = arrays
  /\ \E k \in Keys :
       \/ file' = [j \in Keys \ {k} |-> file[j]]
       \/ /\ LenArr(file[k]) >= 1
          /\ file' = [file EXCEPT ![k] = DropLast(file[k])]
  /\ UNCHANGED <<step, nfiles, labels_cfg, sel_theta, nstations, raw, proc,
                 set_seed, arrays, prev, err, order>>

NextEnv == Next \/ FileReplaced

\* the pipeline on a file system that other writers share
SpecEnv == Init /\ [][NextEnv]_vars

\* ================================================================ claims
\* number of events of processed batch b
NEvents(b) == LenArr(proc[b].lgE_MC)

\* the events of the processed batches, as <<batch, row>>
Events == { <<b, i>> : b \in 1..Len(proc), i \in 1..MaxEvents } \cap
          UNION { {b} \X (1..NEvents(b)) : b \in 1..Len(proc) }

\* a merge has completed and handed its six arrays to np.savez_compressed
Written == arrays # NoArrays

\* the row of event e in each of the six arrays before the shuffle
EventRow(e) ==
  LET pd == proc[e[1]]
      i == e[2]
  IN [ traces     |-> [s \in 1..Len(pd.traces_cum.data[i]) |->
                         [k \in 1..Len(pd.traces_cum.data[i][s]) |->
                            <<pd.traces_cum.data[i][s][k]>>]],
       labels     |-> pd.label,
       dist       |-> [s \in 1..Len(pd.Dist.data[i]) |-> <<pd.Dist.data[i][s]>>],
       info_event |-> << <<pd.theta.data[i]>>, <<pd.lg_S1000.data[i]>>,
                         <<pd.Nstat.data[i]>> >>,
       azimuthSP  |-> [s \in 1..Len(pd.azimuth.data[i]) |->
                         <<pd.azimuth.data[i][s]>>],
       Stot       |-> [s \in 1..Len(pd.lg_Stot.data[i]) |->
                         <<pd.lg_Stot.data[i][s]>>] ]

\* row r of the six written arrays
OutRow(r) == [k \in Keys |-> arrays[k].data[r]]

\* number of events of source file b that process_data is to keep
ExpectedCount(b) ==
  IF sel_theta
  THEN Cardinality({ i \in 1..LenArr(raw[b].theta) :
                       raw[b].theta.data[i] < Radians60 })
  ELSE LenArr(raw[b].theta)

RECURSIVE ExpectedUpTo(_)
ExpectedUpTo(n) == IF n = 0 THEN 0 ELSE ExpectedCount(n) + ExpectedUpTo(n - 1)

\* the sum of the batches' filtered event counts
ExpectedTotal == ExpectedUpTo(Len(proc))

RECURSIVE LabelUpTo(_, _)
LabelUpTo(v, n) ==
  IF n = 0 THEN 0
  ELSE (IF proc[n].label = v THEN ExpectedCount(n) ELSE 0) + LabelUpTo(v, n - 1)

\* the number of events in batches labelled v
LabelCount(v) == LabelUpTo(v, Len(proc))

\* C1: after a merge, with any set_seed, every output row i holds in all six
\* arrays the values of one and the same event of the concatenation.
C1_SamePermutation ==
  Written =>
    /\ \A k \in Keys : LenArr(arrays[k]) = LenArr(arrays.labels)
    /\ \A r \in 1..LenArr(arrays.labels) : \E e \in Events : OutRow(r) = EventRow(e)

\* a merge with a drawn seed (set_seed < 0) that moved rows of three or more
C1_Witness ==
  /\ Written
  /\ set_seed < 0
  /\ LenArr(arrays.labels) >= 3
  /\ \E e \in Events : e[1] = 1 /\ e[2] = 1 /\ OutRow(1) # EventRow(e)

\* C2: a second call of merge_and_shuffle with the same list and the same
\* set_seed >= 0 writes the same six arrays as the first.
C2_Reproducible ==
  (Written /\ prev # NoArrays /\ set_seed >= 0) => arrays = prev

\* two calls with the default seed 55 that both permuted four or more rows
C2_Witness ==
  /\ Written
  /\ prev # NoArrays
  /\ set_seed = DefaultSeed
  /\ arrays = prev
  /\ LenArr(arrays.labels) >= 4
  /\ OutRow(1) # EventRow(<<1, 1>>)

\* the columns of a processed batch that have one row per event
EventColumns ==
  {"lgE_MC", "lgE", "Dist", "traces_cum", "ID", "t0", "theta", "lg_S1000",
   "azimuth", "Nstat"}

\* C3: the batch returned by process_data has as many events as its input
\* when sel_theta is false, and as many as the input has events with
\* theta < 60 degrees (strictly) when sel_theta is true.
C3_RowCount ==
  \A b \in 1..Len(proc) :
    \A c \in EventColumns : LenArr(proc[b][c]) = ExpectedCount(b)

\* a filtered batch that lost an event at exactly 60 degrees and kept another
C3_Witness ==
  /\ sel_theta
  /\ \E b \in 1..Len(proc) :
       /\ \E i \in 1..LenArr(raw[b].theta) : raw[b].theta.data[i] = Radians60
       /\ NEvents(b) >= 1
       /\ NEvents(b) < LenArr(raw[b].theta)

\* the raw waveform behind row j, station i of processed batch b
RawWave(b, j, i) ==
  SubSeq(SelectTheta(raw[b], sel_theta).traces.data[j][i], 1, NBins)

NonDegenerate(w) ==
  /\ \A k \in 1..Len(w) : w[k] >= 0
  /\ \E k \in 1..Len(w) : w[k] > 0

\* C4: the normalized cumulative trace of a non-negative, not all-zero
\* waveform is non-decreasing in time and its last kept bin equals 1.
C4_TraceNormalized ==
  \A b \in 1..Len(proc) :
    \A j \in 1..NEvents(b) : \A i \in 1..nstations :
      NonDegenerate(RawWave(b, j, i)) =>
        LET c == proc[b].traces_cum.data[j][i]
        IN /\ Len(c) = NBins
           /\ \A k \in 1..NBins : IsNum(c[k])
           /\ \A k \in 1..(NBins - 1) : FracLeq(c[k], c[k + 1])
           /\ FracIsOne(c[NBins])

\* a processed non-degenerate waveform whose first bin is below 1
C4_Witness ==
  \E b \in 1..Len(proc) :
    \E j \in 1..NEvents(b) : \E i \in 1..nstations :
      /\ NonDegenerate(RawWave(b, j, i))
      /\ ~FracIsOne(proc[b].traces_cum.data[j][i][1])
      /\ FracIsOne(proc[b].traces_cum.data[j][i][NBins])

\* C5: the written dataset is a permutation of the concatenation: N is the
\* sum of the batches' filtered event counts, every event is in exactly one
\* output row, and each label value occurs once per event of its batches.
C5_Permutation ==
  Written =>
    /\ \A k \in Keys : LenArr(arrays[k]) = ExpectedTotal
    /\ \A e \in Events :
         Cardinality({ r \in 1..ExpectedTotal : OutRow(r) = EventRow(e) }) = 1
    /\ \A v \in {0, 1} :
         Cardinality({ r \in 1..ExpectedTotal : arrays.labels.data[r] = v })
           = LabelCount(v)

\* two batches labelled 1 and 0, merged and reordered
C5_Witness ==
  /\ Written
  /\ Len(proc) = 2
  /\ LabelCount(1) >= 2
  /\ LabelCount(0) >= 2
  /\ arrays.labels.data[1] = 0

\* merge_and_shuffle has been called on the full list (or the run failed)
PastMerge == step \in {"load", "done", "failed"}

\* C6: for every list with at least one event in total and any station
\* count S >= 1, process_data and merge_and_shuffle complete without error
\* and write traces [N,S,150,1], dist, Stot, azimuthSP [N,S,1],
\* info_event [N,3,1] and labels [N].
C6_CompletesWithShapes ==
  (Len(raw) = nfiles /\ ExpectedUpTo(nfiles) >= 1 /\ PastMerge) =>
    LET N == ExpectedUpTo(nfiles)
    IN /\ err = "none"
       /\ Written
       /\ arrays.traces.shape = <<N, nstations, NBins, 1>>
       /\ arrays.dist.shape = <<N, nstations, 1>>
       /\ arrays.Stot.shape = <<N, nstations, 1>>
       /\ arrays.azimuthSP.shape = <<N, nstations, 1>>
       /\ arrays.info_event.shape = <<N, 3, 1>>
       /\ arrays.labels.shape = <<N>>

\* C7: an empty source batch (empty on input or emptied by the filter) is
\* processed into an empty batch and merged without exception into arrays
\* whose leading dimension counts the other batches' events.
C7_EmptyMergesCleanly ==
  (/\ Len(raw) = nfiles
   /\ \E b \in 1..nfiles : ExpectedCount(b) = 0
   /\ PastMerge) =>
    /\ err = "none"
    /\ Written
    /\ \A k \in Keys : LenArr(arrays[k]) = ExpectedUpTo(nfiles)

\* the columns of batch b that merge_and_shuffle concatenates
MergedColumns == {"theta", "traces_cum", "lgE_MC", "Dist", "azimuth", "lg_Stot"}

\* some column handed to the merger has another event count than its batch
ColumnsDisagree ==
  \E b \in 1..Len(proc) : \E c \in MergedColumns :
    \/ Ndim(proc[b][c]) = 0
    \/ LenArr(proc[b][c]) # NEvents(b)

\* C8: when the columns handed to the merger disagree on event count, the
\* merge fails at the length check, before any shuffle and before any file
\* is written; no written dataset has arrays of different leading dimension.
C8_LengthMismatchChecked ==
  /\ (Len(proc) = nfiles /\ ColumnsDisagree /\ PastMerge) =>
       (err = "AssertionError" /\ ~Written /\ file = NoArrays)
  /\ file # NoArrays =>
       \A k \in DOMAIN file : LenArr(file[k]) = LenArr(file.labels)

\* C9: no processed batch holds a not-a-number trace value.
C9_NoNaN ==
  \A b \in 1..Len(proc) :
    \A j \in 1..NEvents(b) : \A i \in 1..nstations :
      \A k \in 1..NBins : proc[b].traces_cum.data[j][i][k] # NaN

\* C10: load_npz_file succeeds only when the container holds all six keys
\* and every reloaded array has the shape of the array that was written.
C10_VerifyChecksShapes ==
  step = "done" =>
    \A k \in Keys : k \in DOMAIN file /\ file[k].shape = arrays[k].shape

\* C11: when a step of the run fails, no file is left at the output path: a
\* file is there after the run only if the write completed and the
\* verification succeeded.
C11_NoUnverifiedFile ==
  step = "failed" => file = NoArrays

\* the (trace, label) pair of row r of a written dataset
PairAt(a, r) == <<a.traces.data[r], a.labels.data[r]>>

\* how many rows of the dataset hold the pair p
PairCount(a, p) ==
  Cardinality({ r \in 1..LenArr(a.traces) : PairAt(a, r) = p })

\* C12: two calls of merge_and_shuffle on the same batches, in whatever list
\* order and with the same seed, write the same multiset of (trace, label)
\* pairs.
C12_PairsInvariantToOrder ==
  (Written /\ prev # NoArrays) =>
    /\ LenArr(arrays.traces) = LenArr(prev.traces)
    /\ LenArr(arrays.labels) = LenArr(arrays.traces)
    /\ \A r \in 1..LenArr(arrays.traces) :
         PairCount(arrays, PairAt(arrays, r)) = PairCount(prev, PairAt(arrays, r))

\* the second call took the two batches in the opposite order, and the rows
\* of the two datasets are not in the same positions
C12_Witness ==
  /\ order = "reversed"
  /\ Written
  /\ prev # NoArrays
  /\ Len(proc) = 2
  /\ set_seed >= 0
  /\ arrays.labels # prev.labels
  /\ \E r \in 1..LenArr(arrays.labels) :
       arrays.labels.data[r] # arrays.labels.data[1]

\* the input events of file b with a zenith angle below 60 degrees
Kept(b) ==
  { i \in 1..Len(raw[b].theta.data) : raw[b].theta.data[i] < Radians60 }

\* the k-th of them, counting upwards
KeptAt(b, k) ==
  CHOOSE i \in Kept(b) : Cardinality({ j \in Kept(b) : j <= i }) = k

\* Dist / 1500 minus the mean over the kept events, for input event i
KeptDist(b, i) ==
  LET rows == raw[b].Dist.data
      total == SumSeq([k \in 1..Cardinality(Kept(b)) |->
                         SumSeq(rows[KeptAt(b, k)])])
      cnt == SumSeq([k \in 1..Cardinality(Kept(b)) |->
                       Len(rows[KeptAt(b, k)])])
  IN [s \in 1..Len(rows[i]) |-> Div(rows[i][s] * cnt - total, DistScale * cnt)]

\* C13: with sel_theta, row k of every column of a processed batch derives
\* from the k-th input event, in input order, whose zenith angle is below
\* 60 degrees: one index set for every column, relative order kept.
C13_SameIndexSet ==
  sel_theta =>
    \A b \in 1..Len(proc) :
      LET p == proc[b]
          t == raw[b]
          n == Cardinality(Kept(b))
      IN /\ \A f \in {"lgE_MC", "lgE", "ID", "t0", "theta", "lg_S1000",
                      "Nstat", "Dist", "azimuth", "traces_cum"} :
              LenArr(p[f]) = n
         /\ p.lg_Stot =
              np_squeeze(np_array(
                << [k \in 1..n |->
                      [s \in 1..Len(t.Stot.data[KeptAt(b, k)]) |->
                         <<"rescale", t.Stot.data[KeptAt(b, k)][s] + 1,
                           Snorm + 1>>]] >>, 3))
         /\ \A k \in 1..n :
              LET i == KeptAt(b, k)
              IN /\ p.lgE_MC.data[k] = Log10(t.Ene_MC.data[i])
                 /\ p.lgE.data[k] = Log10(t.Ene.data[i])
                 /\ p.ID.data[k] = t.ID.data[i]
                 /\ p.t0.data[k] = t.t0.data[i]
                 /\ p.theta.data[k] = Degrees(t.theta.data[i])
                 /\ p.lg_S1000.data[k] = Log10(t.S1000.data[i])
                 /\ p.Nstat.data[k] = Log10(t.Nstat.data[i])
                 /\ p.Dist.data[k] = KeptDist(b, i)
                 /\ p.azimuth.data[k] =
                      [s \in 1..Len(t.azimuth.data[i]) |->
                         Degrees(t.azimuth.data[i][s])]
                 /\ p.traces_cum.data[k] =
                      [s \in 1..Len(t.traces.data[i]) |->
                         NormalizeTrace(Truncate(t.traces.data[i][s]))]

\* a batch processed with sel_theta whose first input event was dropped, so
\* that row 1 of the processed batch is input event 2
C13_Witness ==
  /\ sel_theta
  /\ \E b \in 1..Len(proc) :
       /\ NEvents(b) >= 1
       /\ NEvents(b) < Len(raw[b].theta.data)
       /\ KeptAt(b, 1) # 1

\* C14: process_data leaves its input batch as it was, the raw traces
\* included, whatever sel_theta is.
C14_InputUnchanged ==
  [][(step = "process") => (raw' = raw)]_vars

\* process_data has run without the theta selection on a batch whose first
\* waveform starts with a non-zero bin, which the normalization rescales
C14_Witness ==
  /\ ~sel_theta
  /\ Len(proc) >= 1
  /\ NEvents(1) >= 1
  /\ raw[1].traces.data[1][1][1] = 11
  /\ proc[1].traces_cum.data[1][1][1] # <<1, 1>>

\* C15: merge_and_shuffle leaves every batch of its list as it was, values
\* and row order, also when the list holds one batch.
C15_BatchesUnchanged ==
  [][(step \in {"merge", "done"}) => (proc' = proc)]_vars

\* a single batch was merged and written with its rows in another order
C15_Witness ==
  /\ Written
  /\ Len(proc) = 1
  /\ arrays.traces # Reshape3(proc[1].traces_cum)
  /\ arrays.dist # Reshape2(proc[1].Dist)

====
